---- MODULE Spec2Model ----
(***************************************************************************)
(* Model of the source filter form (SourceTableFilterForm.jsx): the        *)
(* classification option list built on render, the form fields held by     *)
(* the form library, the two display-emphasis mirrors, submit and reset.   *)
(*                                                                         *)
(* Strings that the code formats and sorts (taxonomy names, class names,   *)
(* labels) are sequences of UTF-16 code units, so that formatting is a     *)
(* concatenation and sorting is a comparison of code units.                *)
(***************************************************************************)
EXTENDS Integers, Sequences, FiniteSets, TLC

VARIABLES
    taxonomyList,            \* state.taxonomies.taxonomyList (store)
    groups,                  \* the groups prop: undefined, or a list of group ids
    phase,                   \* "unmounted", "mounted" or "crashed" (render threw)
    classifications,         \* the option list computed by the render
    values,                  \* the form library's field values
    errors,                  \* the form library's errors: the fields marked invalid
    selectedClassifications, \* useState mirror of the classifications field
    selectedGroups,          \* useState mirror of the groupIds field
    nCalls,                  \* number of handleFilterSubmit invocations
    lastCall,                \* argument of the last handleFilterSubmit invocation
    pending,                 \* handleFilterSubmit invocations whose promise has not settled
    callbackError,           \* the error the callback raised in this step, or "none"
    submitError,             \* the error the submit handler ended with in this step, or "none"
    lastEdit,                \* history: per field, the last value set since the last reset
    photometry,              \* state.photometry[route.id] (store)
    spectra,                 \* state.spectra[route.id] (store)
    shareGroups,             \* the data-sharing form's groups field
    selectedPhotRows,        \* useState: selected rows of the photometry table
    selectedSpecRows,        \* useState: selected rows of the spectra table
    isSubmitting,            \* useState of the data-sharing form
    shareErrors,             \* errors.groups of the data-sharing form
    shareInFlight,           \* shareData dispatches whose promise has not settled
    lastShare,               \* data of the last shareData dispatch
    nNotifications,          \* showNotification dispatches
    route,                   \* route.id of the data-sharing form: the source shown
    shareResult,             \* history: how the last settled shareData dispatch ended
    pickedPhotIDs,           \* history: ids of the photometry records the user selected
    pickedSpecIDs,           \* history: ids of the spectra the user selected
    candRoute,               \* route.id of the Candidate page
    candidate,               \* state.candidate (store): its id and loadError
    view,                    \* what the Candidate page's last render returned
    fetches,                 \* history: the ids fetchCandidate was dispatched with
    comments,                \* state.source.comments (store)
    userProfile,             \* state.profile (store): username, Super admin role
    hoverID,                 \* useState of the comment list
    sinceDaysAgo,            \* the sinceDaysAgo prop of the source-counts widget
    userPrefs,               \* state.profile.preferences.sourceCounts (store)
    prefUpdates,             \* history: the updateUserPreferences dispatches
    prefsInFlight,           \* updateUserPreferences dispatches not yet answered
    lastOp,                  \* history: the operation that produced this state
    nOps                     \* history: number of user events so far

vars == <<taxonomyList, groups, phase, classifications, values, errors,
          selectedClassifications, selectedGroups, nCalls, lastCall,
          pending, callbackError, submitError, lastEdit,
          photometry, spectra, shareGroups, selectedPhotRows, selectedSpecRows,
          isSubmitting, shareErrors, shareInFlight, lastShare, nNotifications,
          route, shareResult, pickedPhotIDs, pickedSpecIDs,
          candRoute, candidate, view, fetches,
          comments, userProfile, hoverID,
          sinceDaysAgo, userPrefs, prefUpdates, prefsInFlight,
          lastOp, nOps>>

\* the filter form's variables and the data-sharing form's
formVars == <<taxonomyList, groups, phase, classifications, values, errors,
              selectedClassifications, selectedGroups, nCalls, lastCall,
              pending, callbackError, submitError, lastEdit>>
shareVars == <<photometry, spectra, shareGroups, selectedPhotRows,
               selectedSpecRows, isSubmitting, shareErrors, shareInFlight,
               lastShare, nNotifications, route, shareResult, pickedPhotIDs,
               pickedSpecIDs>>

\* the Candidate page's variables, the comment list's, the source-counts
\* widget's
candidateVars == <<candRoute, candidate, view, fetches>>
commentVars == <<comments, userProfile, hoverID>>
countsVars == <<sinceDaysAgo, userPrefs, prefUpdates, prefsInFlight>>
pageVars == <<candidateVars, commentVars, countsVars>>

----------------------------------------------------------------------------
(* Bounds *)

\* events (edits, submits, resets, callback completions) in one behaviour
MaxOps == 4
\* length of the groups prop
MaxGroups == 2
\* length of the taxonomy list drawn for the option list builder
MaxTaxonomies == 2
\* rows of the photometry table and of the spectra table
MaxRows == 2
\* events of the data-sharing form (selections, submits, completions,
\* route changes)
MaxShareEvents == 4
\* sources the data-sharing form can be routed to
MaxRoutes == 2
\* candidate ids
MaxCandidates == 2
\* comments in the comment list
MaxComments == 2
\* user names
MaxUsers == 2
\* events of the Candidate page, the comment list or the source-counts
\* widget in one behaviour
MaxPageEvents == 3

----------------------------------------------------------------------------
(* Strings as code units *)

\* the separator of a label, ": "
ChColon == 58
ChSpace == 32

\* "A", "B" and "A: A"
StrA == <<65>>
StrB == <<66>>
StrAA == <<65, ChColon, ChSpace, 65>>
\* U+FF21 (fullwidth A), one code unit, and U+1D400 (mathematical bold A), a
\* surrogate pair
StrFullwidthA == <<65313>>
StrMathA == <<55349, 56320>>

\* JavaScript's comparison of two strings: code unit by code unit, a proper
\* prefix first.
RECURSIVE StrLess(_, _)
StrLess(a, b) ==
    IF Len(b) = 0 THEN FALSE
    ELSE IF Len(a) = 0 THEN TRUE
    ELSE IF Head(a) # Head(b) THEN Head(a) < Head(b)
    ELSE StrLess(Tail(a), Tail(b))

----------------------------------------------------------------------------
(* Classification option list *)

\* the extractor imported from ./ClassificationForm: a hierarchy yields a list
\* of options, each with a class name
allowedClasses(hierarchy) ==
    [i \in 1..Len(hierarchy) |-> [class |-> hierarchy[i]]]

\* `${taxonomy.name}: ${option.class}`
FormatLabel(name, class) == name \o <<ChColon, ChSpace>> \o class

\* taxonomyList.filter((t) => t.isLatest)
LatestTaxonomies_All(list) == list
LatestTaxonomies(list) == SelectSeq(list, LAMBDA t : t.isLatest)

\* allowedClasses(taxonomy.hierarchy).map(...)
CurrentClasses(taxonomy) ==
    LET opts == allowedClasses(taxonomy.hierarchy)
    IN  [i \in 1..Len(opts) |-> FormatLabel(taxonomy.name, opts[i].class)]

\* latestTaxonomyList.forEach(... classifications.concat(currentClasses))
RECURSIVE ConcatClasses(_)
ConcatClasses(list) ==
    IF Len(list) = 0 THEN <<>>
    ELSE CurrentClasses(Head(list)) \o ConcatClasses(Tail(list))

\* Array.from(new Set(list)): the first occurrence of each element, in order
RECURSIVE UniqueFrom(_, _)
UniqueFrom(list, seen) ==
    IF Len(list) = 0 THEN <<>>
    ELSE IF Head(list) \in seen THEN UniqueFrom(Tail(list), seen)
    ELSE <<Head(list)>> \o UniqueFrom(Tail(list), seen \cup {Head(list)})

Unique_Keep(list) == list
Unique(list) == UniqueFrom(list, {})

\* Array.prototype.sort() without a comparator, on strings
RECURSIVE InsertSorted(_, _)
InsertSorted(x, sorted) ==
    IF Len(sorted) = 0 THEN <<x>>
    ELSE IF StrLess(Head(sorted), x) THEN <<Head(sorted)>> \o InsertSorted(x, Tail(sorted))
    ELSE <<x>> \o sorted

Sort_Keep(list) == list
RECURSIVE Sort(_)
Sort(list) ==
    IF Len(list) = 0 THEN <<>>
    ELSE InsertSorted(Head(list), Sort(Tail(list)))

ClassificationOptions(list) ==
    Sort(Unique(ConcatClasses(LatestTaxonomies(list))))

----------------------------------------------------------------------------
(* Inputs *)

\* the groups prop: undefined (defaultProps), or a list of 0..MaxGroups
\* groups (by id)
Undefined == [defined |-> FALSE, list |-> <<>>]
GroupProps ==
    {Undefined} \cup {[defined |-> TRUE, list |-> [i \in 1..n |-> i]] : n \in 0..MaxGroups}

TaxonomyNames == {StrA, StrB, StrAA}
Hierarchies ==
    {<<>>, <<StrA>>, <<StrB, StrA>>, <<StrA, StrA>>, <<StrAA, StrB>>,
     <<StrFullwidthA, StrMathA>>}
Taxonomies == [name : TaxonomyNames, isLatest : BOOLEAN, hierarchy : Hierarchies]
TaxonomyLists == UNION {[1..n -> Taxonomies] : n \in 0..MaxTaxonomies}

\* the taxonomy list of the form's behaviours: one latest taxonomy with two
\* classes, one superseded taxonomy
FormTaxonomyList ==
    << [name |-> StrA, isLatest |-> TRUE, hierarchy |-> <<StrB, StrA>>],
       [name |-> StrB, isLatest |-> FALSE, hierarchy |-> <<StrA>>] >>

----------------------------------------------------------------------------
(* Form fields *)

\* inputs registered by ref (inputRef={register})
TextFields ==
    {"sourceID", "ra", "dec", "radius", "startDate", "endDate", "simbadClass",
     "minRedshift", "maxRedshift", "minPeakMagnitude", "maxPeakMagnitude",
     "minLatestMagnitude", "maxLatestMagnitude"}
\* Controller-rendered checkboxes
CheckboxFields == {"hasTNSname", "hasSpectrum"}

\* what the user can type into a text input
TextInputs == {"", "x", "y"}

\* {groups && (...)}: the group selector is rendered for any truthy groups
\* prop; an empty array is truthy
GroupSelectorShown == groups.defined

\* the fields the form library knows
RegisteredFields ==
    TextFields \cup CheckboxFields \cup {"classifications"}
        \cup (IF GroupSelectorShown THEN {"groupIds"} ELSE {})

\* an uncontrolled input starts empty; the Controllers give defaultValue
DefaultValue(f) ==
    IF f \in TextFields THEN ""
    ELSE IF f \in CheckboxFields THEN FALSE
    ELSE <<>>

DefaultValues == [f \in RegisteredFields |-> DefaultValue(f)]

\* the form library stores the value of field f
SetValue_Shifted(vals, f, v) ==
    IF f = "startDate" THEN [vals EXCEPT !["endDate"] = v] ELSE [vals EXCEPT ![f] = v]
SetValue(vals, f, v) == [vals EXCEPT ![f] = v]

\* a multiple Select's change event: the clicked item is added at the end of
\* the selection, or removed from it
Toggle(sel, x) ==
    IF \E i \in 1..Len(sel) : sel[i] = x
    THEN SelectSeq(sel, LAMBDA y : y # x)
    ELSE Append(sel, x)

SeqRange(s) == {s[i] : i \in 1..Len(s)}

----------------------------------------------------------------------------
(* Validation *)

\* validateGroups: formState.groupIds.length !== 0
validateGroups == Len(values["groupIds"]) # 0

\* rules.required on a field holding an array: an empty array is empty
RequiredRule(v) == v # <<>>

\* the rules of the groupIds Controller: required and validate
GroupIdsValid_NoRules == TRUE
GroupIdsValid == RequiredRule(values["groupIds"]) /\ validateGroups

\* the fields whose error the form displays: useForm's errors is not read
\* (line 119) and no element of the form depends on it
ShownErrors == {}

\* the fields that fail their rules; only groupIds has rules, and only when
\* its Controller is rendered
InvalidFields ==
    IF GroupSelectorShown /\ ~GroupIdsValid THEN {"groupIds"} ELSE {}

\* the data handleSubmit passes on: the value of every registered field
SubmitData_FromMirrors ==
    [f \in RegisteredFields |->
        IF f = "classifications" THEN selectedClassifications ELSE values[f]]
SubmitData_DropGroups == [f \in RegisteredFields \ {"groupIds"} |-> values[f]]
SubmitData == [f \in RegisteredFields |-> values[f]]

----------------------------------------------------------------------------
(* Operations *)

\* what handleFilterSubmit, supplied by the page, may do when called: return,
\* throw, or return a promise that settles later
CallbackOutcomes == {"returns", "throws", "pending"}
SettleOutcomes == {"resolves", "rejects"}
\* the error a failing callback raises
CallbackErrors == {"E"}

FormInit ==
    /\ groups \in GroupProps
    /\ phase = "unmounted"
    /\ classifications = <<>>
    /\ values = <<>>
    /\ errors = {}
    /\ selectedClassifications = <<>>
    /\ selectedGroups = <<>>
    /\ nCalls = 0
    /\ lastCall = <<>>
    /\ pending = 0
    /\ callbackError = "none"
    /\ submitError = "none"
    /\ lastEdit = <<>>
    /\ lastOp = "none"
    /\ nOps = 0

\* the data-sharing form is not on the page
ShareIdle ==
    /\ photometry = [loaded |-> FALSE, rows |-> <<>>]
    /\ spectra = [loaded |-> FALSE, rows |-> <<>>]
    /\ shareGroups = <<>>
    /\ selectedPhotRows = {}
    /\ selectedSpecRows = {}
    /\ isSubmitting = FALSE
    /\ shareErrors = FALSE
    /\ shareInFlight = 0
    /\ lastShare = [groupIDs |-> <<>>, photometryIDs |-> {}, spectrumIDs |-> {}]
    /\ nNotifications = 0
    /\ route = 1
    /\ shareResult = "none"
    /\ pickedPhotIDs = {}
    /\ pickedSpecIDs = {}

\* an id that is undefined (route.id, candidate.id), and hoverID null
UndefinedId == 0
NoComment == 0

\* the Candidate page is not on the page
CandidateIdle ==
    /\ candRoute = UndefinedId
    /\ candidate = [id |-> UndefinedId, loadError |-> FALSE]
    /\ view = "none"
    /\ fetches = <<>>

\* the comment list is not on the page
CommentsIdle ==
    /\ comments = <<>>
    /\ userProfile = [username |-> 1, superAdmin |-> FALSE]
    /\ hoverID = NoComment

\* the source-counts widget is not on the page
CountsIdle ==
    /\ sinceDaysAgo = "undefined"
    /\ userPrefs = [set |-> FALSE, sinceDaysAgo |-> ""]
    /\ prefUpdates = <<>>
    /\ prefsInFlight = 0

Init ==
    /\ taxonomyList = FormTaxonomyList
    /\ FormInit
    /\ ShareIdle
    /\ CandidateIdle
    /\ CommentsIdle
    /\ CountsIdle

\* no callback failed in this step
NoFailure == callbackError' = "none" /\ submitError' = "none"

\* The component function, first render. groups.forEach throws a TypeError
\* when the groups prop is undefined, and nothing is rendered.
Render ==
    /\ phase = "unmounted"
    /\ classifications' = ClassificationOptions(taxonomyList)
    /\ IF ~groups.defined
       THEN /\ phase' = "crashed"
            /\ UNCHANGED <<values, lastEdit>>
       ELSE /\ phase' = "mounted"
            /\ values' = DefaultValues
            /\ lastEdit' = DefaultValues
    /\ lastOp' = "render"
    /\ UNCHANGED shareVars
    /\ UNCHANGED pageVars
    /\ NoFailure
    /\ UNCHANGED <<taxonomyList, groups, errors, selectedClassifications,
                   selectedGroups, nCalls, lastCall, pending, nOps>>

\* an event reaches the rendered form
UserEvent ==
    /\ phase = "mounted"
    /\ nOps < MaxOps
    /\ nOps' = nOps + 1

\* typing into one of the registered text inputs
EditText ==
    /\ UserEvent
    /\ \E f \in TextFields, v \in TextInputs :
        /\ values' = SetValue(values, f, v)
        /\ lastEdit' = [lastEdit EXCEPT ![f] = v]
    /\ lastOp' = "edit"
    /\ UNCHANGED shareVars
    /\ UNCHANGED pageVars
    /\ NoFailure
    /\ UNCHANGED <<taxonomyList, groups, phase, classifications, errors,
                   selectedClassifications, selectedGroups, nCalls, lastCall,
                   pending>>

\* ticking a checkbox: onChange(event.target.checked)
EditCheckbox ==
    /\ UserEvent
    /\ \E f \in CheckboxFields, v \in BOOLEAN :
        /\ values' = SetValue(values, f, v)
        /\ lastEdit' = [lastEdit EXCEPT ![f] = v]
    /\ lastOp' = "edit"
    /\ UNCHANGED shareVars
    /\ UNCHANGED pageVars
    /\ NoFailure
    /\ UNCHANGED <<taxonomyList, groups, phase, classifications, errors,
                   selectedClassifications, selectedGroups, nCalls, lastCall,
                   pending>>

\* the classifications Select: setSelectedClassifications(event.target.value);
\* onChange(event.target.value)
EditClassifications_BothMirrors ==
    /\ UserEvent
    /\ \E c \in SeqRange(classifications) :
        LET v == Toggle(values["classifications"], c)
        IN  /\ selectedClassifications' = v
            /\ selectedGroups' = v
            /\ values' = SetValue(values, "classifications", v)
            /\ lastEdit' = [lastEdit EXCEPT !["classifications"] = v]
    /\ lastOp' = "edit"
    /\ UNCHANGED shareVars
    /\ UNCHANGED pageVars
    /\ NoFailure
    /\ UNCHANGED <<taxonomyList, groups, phase, classifications, errors,
                   nCalls, lastCall, pending>>
EditClassifications ==
    /\ UserEvent
    /\ \E c \in SeqRange(classifications) :
        LET v == Toggle(values["classifications"], c)
        IN  /\ selectedClassifications' = v
            /\ values' = SetValue(values, "classifications", v)
            /\ lastEdit' = [lastEdit EXCEPT !["classifications"] = v]
    /\ lastOp' = "edit"
    /\ UNCHANGED shareVars
    /\ UNCHANGED pageVars
    /\ NoFailure
    /\ UNCHANGED <<taxonomyList, groups, phase, classifications, errors,
                   selectedGroups, nCalls, lastCall, pending>>

\* the groupIds Select: setSelectedGroups(event.target.value); return
\* event.target.value
EditGroupIds ==
    /\ UserEvent
    /\ GroupSelectorShown
    /\ \E g \in SeqRange(groups.list) :
        LET v == Toggle(values["groupIds"], g)
        IN  /\ selectedGroups' = v
            /\ values' = SetValue(values, "groupIds", v)
            /\ lastEdit' = [lastEdit EXCEPT !["groupIds"] = v]
    /\ lastOp' = "edit"
    /\ UNCHANGED shareVars
    /\ UNCHANGED pageVars
    /\ NoFailure
    /\ UNCHANGED <<taxonomyList, groups, phase, classifications, errors,
                   selectedClassifications, nCalls, lastCall, pending>>

\* handleSubmit has no catch around the callback: what the callback raises
\* is what the promise of the submit handler is rejected with
PropagatedError_Swallowed(e) == "none"
PropagatedError(e) == e

CallbackFails(e) == callbackError' = e /\ submitError' = PropagatedError(e)

\* handleFilterSubmit(data) is called once
InvokeCallback(data) ==
    /\ nCalls' = nCalls + 1
    /\ lastCall' = data
    /\ \E outcome \in CallbackOutcomes :
        CASE outcome = "returns" -> pending' = pending /\ NoFailure
          [] outcome = "throws" ->
                /\ pending' = pending
                /\ \E e \in CallbackErrors : CallbackFails(e)
          [] outcome = "pending" -> pending' = pending + 1 /\ NoFailure

\* onSubmit={handleSubmit(handleFilterSubmit)}: validate every field with
\* rules; call handleFilterSubmit with the field values when none fails,
\* otherwise record the errors. The field values and the mirrors are not
\* written.
HandleSubmit_ClearsOnError ==
    IF InvalidFields = {}
    THEN /\ errors' = {}
         /\ InvokeCallback(SubmitData)
         /\ UNCHANGED <<values, selectedClassifications, selectedGroups>>
    ELSE /\ errors' = InvalidFields
         /\ NoFailure
         /\ values' = DefaultValues
         /\ UNCHANGED <<nCalls, lastCall, pending, selectedClassifications,
                        selectedGroups>>
HandleSubmit ==
    /\ IF InvalidFields = {}
       THEN /\ errors' = {}
            /\ InvokeCallback(SubmitData)
       ELSE /\ errors' = InvalidFields
            /\ NoFailure
            /\ UNCHANGED <<nCalls, lastCall, pending>>
    /\ UNCHANGED <<values, selectedClassifications, selectedGroups>>

\* the Submit button: type="submit", no disabled prop
SubmitDisabled_WhilePending == pending > 0
SubmitDisabled == FALSE

Submit ==
    /\ UserEvent
    /\ ~SubmitDisabled
    /\ HandleSubmit
    /\ lastOp' = "submit"
    /\ UNCHANGED shareVars
    /\ UNCHANGED pageVars
    /\ UNCHANGED <<taxonomyList, groups, phase, classifications, lastEdit>>

\* a promise returned by handleFilterSubmit settles; the submit handler that
\* awaits it ends the same way
CallbackSettles ==
    /\ UserEvent
    /\ pending > 0
    /\ pending' = pending - 1
    /\ \E outcome \in SettleOutcomes :
        IF outcome = "rejects"
        THEN \E e \in CallbackErrors : CallbackFails(e)
        ELSE NoFailure
    /\ lastOp' = "settle"
    /\ UNCHANGED shareVars
    /\ UNCHANGED pageVars
    /\ UNCHANGED <<taxonomyList, groups, phase, classifications, values, errors,
                   selectedClassifications, selectedGroups, nCalls, lastCall,
                   lastEdit>>

\* handleClickReset: reset() of the form library restores every field's
\* default and clears the errors; the useState mirrors are not touched
handleClickReset_NativeOnly ==
    /\ values' = [f \in DOMAIN values |-> IF f \in TextFields THEN "" ELSE values[f]]
    /\ errors' = {}
    /\ UNCHANGED <<selectedClassifications, selectedGroups, nCalls, lastCall>>
handleClickReset_Submits ==
    /\ values' = DefaultValues
    /\ errors' = {}
    /\ nCalls' = nCalls + 1
    /\ lastCall' = DefaultValues
    /\ UNCHANGED <<selectedClassifications, selectedGroups>>
handleClickReset_StaleMirrors ==
    /\ values' = DefaultValues
    /\ errors' = {}
    /\ selectedClassifications' = values["classifications"]
    /\ selectedGroups' = values["groupIds"]
    /\ UNCHANGED <<nCalls, lastCall>>
handleClickReset ==
    /\ values' = DefaultValues
    /\ errors' = {}
    /\ UNCHANGED <<selectedClassifications, selectedGroups, nCalls, lastCall>>

\* the Reset button: onClick={handleClickReset}
Reset_Dispatches ==
    /\ UserEvent
    /\ handleClickReset
    /\ lastEdit' = DefaultValues
    /\ lastOp' = "reset"
    /\ UNCHANGED shareVars
    /\ UNCHANGED pageVars
    /\ NoFailure
    /\ taxonomyList' = <<>>
    /\ UNCHANGED <<groups, phase, classifications, pending>>
Reset ==
    /\ UserEvent
    /\ handleClickReset
    /\ lastEdit' = DefaultValues
    /\ lastOp' = "reset"
    /\ UNCHANGED shareVars
    /\ UNCHANGED pageVars
    /\ NoFailure
    /\ UNCHANGED <<taxonomyList, groups, phase, classifications, pending>>

Next ==
    \/ Render
    \/ EditText
    \/ EditCheckbox
    \/ EditClassifications
    \/ EditGroupIds
    \/ Submit
    \/ CallbackSettles
    \/ Reset

Spec == Init /\ [][Next]_vars

----------------------------------------------------------------------------
(* The data-sharing form (ShareDataForm.jsx) *)

\* state.groups.all: the options of the groups Autocomplete
ShareGroupOptions == 1..MaxGroups

\* the values of route.id
Routes == 1..MaxRoutes

\* what a fetch for source r can put into the store: up to MaxRows records
\* of that source, by id
PhotometryLists(r) == {[i \in 1..n |-> 100 * r + 10 + i] : n \in 0..MaxRows}
SpectraLists(r) == {[i \in 1..n |-> 100 * r + 20 + i] : n \in 0..MaxRows}

\* what the dispatch of shareData may end with: a result with status
\* "success", a result with another status, or a rejected promise
ShareOutcomes == {"success", "error", "rejects"}

\* the filter form is not on the page
FormIdle ==
    /\ taxonomyList = <<>>
    /\ groups = Undefined
    /\ phase = "unmounted"
    /\ classifications = <<>>
    /\ values = <<>>
    /\ errors = {}
    /\ selectedClassifications = <<>>
    /\ selectedGroups = <<>>
    /\ nCalls = 0
    /\ lastCall = <<>>
    /\ pending = 0
    /\ callbackError = "none"
    /\ submitError = "none"
    /\ lastEdit = <<>>

\* the form is mounted, its fetches dispatched (useEffect) and not answered
InitShare ==
    /\ FormIdle
    /\ ShareIdle
    /\ CandidateIdle
    /\ CommentsIdle
    /\ CountsIdle
    /\ lastOp = "none"
    /\ nOps = 0

\* the render returns "Loading..." until photometry or spectra are there
ShareFormShown == photometry.loaded \/ spectra.loaded

ShareEvent ==
    /\ nOps < MaxShareEvents
    /\ nOps' = nOps + 1

\* fetchSourcePhotometry(route.id) is answered
PhotometryFetched ==
    /\ ~photometry.loaded
    /\ \E rows \in PhotometryLists(route) :
        photometry' = [loaded |-> TRUE, rows |-> rows]
    /\ lastOp' = "fetch"
    /\ UNCHANGED <<route, shareResult, pickedPhotIDs, pickedSpecIDs>>
    /\ UNCHANGED <<spectra, shareGroups, selectedPhotRows, selectedSpecRows,
                   isSubmitting, shareErrors, shareInFlight, lastShare,
                   nNotifications, nOps>>
    /\ UNCHANGED formVars
    /\ UNCHANGED pageVars

\* fetchSourceSpectra(route.id) is answered
SpectraFetched ==
    /\ ~spectra.loaded
    /\ \E rows \in SpectraLists(route) :
        spectra' = [loaded |-> TRUE, rows |-> rows]
    /\ lastOp' = "fetch"
    /\ UNCHANGED <<route, shareResult, pickedPhotIDs, pickedSpecIDs>>
    /\ UNCHANGED <<photometry, shareGroups, selectedPhotRows, selectedSpecRows,
                   isSubmitting, shareErrors, shareInFlight, lastShare,
                   nNotifications, nOps>>
    /\ UNCHANGED formVars
    /\ UNCHANGED pageVars

\* onRowSelectionChange of a table: the clicked row joins or leaves the
\* selected row indexes
ToggleRow(sel, i) == IF i \in sel THEN sel \ {i} ELSE sel \cup {i}

SelectPhotRow ==
    /\ ShareEvent
    /\ ShareFormShown
    /\ photometry.loaded
    /\ \E i \in 1..Len(photometry.rows) :
        /\ selectedPhotRows' = ToggleRow(selectedPhotRows, i)
        /\ pickedPhotIDs' = IF i \in selectedPhotRows
                            THEN pickedPhotIDs \ {photometry.rows[i]}
                            ELSE pickedPhotIDs \cup {photometry.rows[i]}
    /\ lastOp' = "select"
    /\ UNCHANGED <<route, shareResult, pickedSpecIDs>>
    /\ UNCHANGED <<photometry, spectra, shareGroups, selectedSpecRows,
                   isSubmitting, shareErrors, shareInFlight, lastShare,
                   nNotifications>>
    /\ UNCHANGED formVars
    /\ UNCHANGED pageVars

SelectSpecRow ==
    /\ ShareEvent
    /\ ShareFormShown
    /\ spectra.loaded
    /\ \E i \in 1..Len(spectra.rows) :
        /\ selectedSpecRows' = ToggleRow(selectedSpecRows, i)
        /\ pickedSpecIDs' = IF i \in selectedSpecRows
                            THEN pickedSpecIDs \ {spectra.rows[i]}
                            ELSE pickedSpecIDs \cup {spectra.rows[i]}
    /\ lastOp' = "select"
    /\ UNCHANGED <<route, shareResult, pickedPhotIDs>>
    /\ UNCHANGED <<photometry, spectra, shareGroups, selectedPhotRows,
                   isSubmitting, shareErrors, shareInFlight, lastShare,
                   nNotifications>>
    /\ UNCHANGED formVars
    /\ UNCHANGED pageVars

\* the groups Autocomplete: onChange={([, data]) => data}
ChooseShareGroup ==
    /\ ShareEvent
    /\ ShareFormShown
    /\ \E g \in ShareGroupOptions : shareGroups' = Toggle(shareGroups, g)
    /\ lastOp' = "choose"
    /\ UNCHANGED <<route, shareResult, pickedPhotIDs, pickedSpecIDs>>
    /\ UNCHANGED <<photometry, spectra, selectedPhotRows, selectedSpecRows,
                   isSubmitting, shareErrors, shareInFlight, lastShare,
                   nNotifications>>
    /\ UNCHANGED formVars
    /\ UNCHANGED pageVars

\* validateGroups of the data-sharing form: formState.groups.length >= 1
validateShareGroups_Always == TRUE
validateShareGroups == Len(shareGroups) >= 1

\* selectedRows.map((idx) => store[route.id][idx].id)
SelectedIDs(sel, rows) == {rows[i] : i \in sel}

\* the Submit button: disabled={isSubmitting}, and the "Processing..." notice
SubmitShareDisabled == isSubmitting
ProcessingShown == isSubmitting

\* onSubmit up to its await: the ids are collected, isSubmitting is set and
\* shareData is dispatched. A selected index outside the store's list makes
\* the collection throw before anything is set.
onSubmitStart ==
    IF \/ \E i \in selectedPhotRows : i \notin 1..Len(photometry.rows)
       \/ \E i \in selectedSpecRows : i \notin 1..Len(spectra.rows)
    THEN UNCHANGED <<isSubmitting, shareInFlight, lastShare>>
    ELSE /\ isSubmitting' = TRUE
         /\ shareInFlight' = shareInFlight + 1
         /\ lastShare' = [groupIDs |-> shareGroups,
                          photometryIDs |-> SelectedIDs(selectedPhotRows, photometry.rows),
                          spectrumIDs |-> SelectedIDs(selectedSpecRows, spectra.rows)]

\* the form's onSubmit={handleSubmit(onSubmit)}: validate, then onSubmit.
\* The handler is asynchronous; for one submit event its validation and the
\* start of onSubmit run before the next event is handled.
ShareSubmit ==
    /\ ShareEvent
    /\ ShareFormShown
    /\ ~SubmitShareDisabled
    /\ IF validateShareGroups
       THEN /\ shareErrors' = FALSE
            /\ onSubmitStart
       ELSE /\ shareErrors' = TRUE
            /\ UNCHANGED <<isSubmitting, shareInFlight, lastShare>>
    /\ lastOp' = "share"
    /\ UNCHANGED <<route, shareResult, pickedPhotIDs, pickedSpecIDs>>
    /\ UNCHANGED <<photometry, spectra, shareGroups, selectedPhotRows,
                   selectedSpecRows, nNotifications>>
    /\ UNCHANGED formVars
    /\ UNCHANGED pageVars

\* Two submit events dispatched to the form back to back (a double dispatch
\* in one task): both handlers are started while the button is enabled and
\* isSubmitting is false, both validate the same field values, and onSubmit
\* then runs once for each. handleSubmit and onSubmit do not check
\* isSubmitting themselves.
ShareSubmitTwice ==
    /\ ShareEvent
    /\ ShareFormShown
    /\ ~SubmitShareDisabled
    /\ IF validateShareGroups
       THEN /\ shareErrors' = FALSE
            /\ IF \/ \E i \in selectedPhotRows : i \notin 1..Len(photometry.rows)
                  \/ \E i \in selectedSpecRows : i \notin 1..Len(spectra.rows)
               THEN UNCHANGED <<isSubmitting, shareInFlight, lastShare>>
               ELSE /\ isSubmitting' = TRUE
                    /\ shareInFlight' = shareInFlight + 2
                    /\ lastShare' =
                         [groupIDs |-> shareGroups,
                          photometryIDs |-> SelectedIDs(selectedPhotRows, photometry.rows),
                          spectrumIDs |-> SelectedIDs(selectedSpecRows, spectra.rows)]
       ELSE /\ shareErrors' = TRUE
            /\ UNCHANGED <<isSubmitting, shareInFlight, lastShare>>
    /\ lastOp' = "shareTwice"
    /\ UNCHANGED <<route, shareResult, pickedPhotIDs, pickedSpecIDs>>
    /\ UNCHANGED <<photometry, spectra, shareGroups, selectedPhotRows,
                   selectedSpecRows, nNotifications>>
    /\ UNCHANGED formVars
    /\ UNCHANGED pageVars

\* onSubmit after its await: on status "success" notify, reset the groups
\* field and clear the row selections; then setIsSubmitting(false). A
\* rejected dispatch ends onSubmit at the await.
onSubmitResume_ClearsAlways(outcome) ==
    CASE outcome \in {"success", "error"} ->
            /\ nNotifications' = nNotifications + 1
            /\ shareGroups' = <<>>
            /\ shareErrors' = FALSE
            /\ selectedPhotRows' = {}
            /\ selectedSpecRows' = {}
            /\ pickedPhotIDs' = {}
            /\ pickedSpecIDs' = {}
            /\ isSubmitting' = FALSE
      [] outcome = "rejects" ->
            UNCHANGED <<nNotifications, shareGroups, shareErrors,
                        selectedPhotRows, selectedSpecRows,
                        pickedPhotIDs, pickedSpecIDs, isSubmitting>>
onSubmitResume(outcome) ==
    CASE outcome = "success" ->
            /\ nNotifications' = nNotifications + 1
            /\ shareGroups' = <<>>
            /\ shareErrors' = FALSE
            /\ selectedPhotRows' = {}
            /\ selectedSpecRows' = {}
            /\ pickedPhotIDs' = {}
            /\ pickedSpecIDs' = {}
            /\ isSubmitting' = FALSE
      [] outcome = "error" ->
            /\ isSubmitting' = FALSE
            /\ UNCHANGED <<nNotifications, shareGroups, shareErrors,
                           selectedPhotRows, selectedSpecRows,
                           pickedPhotIDs, pickedSpecIDs>>
      [] outcome = "rejects" ->
            UNCHANGED <<nNotifications, shareGroups, shareErrors,
                        selectedPhotRows, selectedSpecRows,
                        pickedPhotIDs, pickedSpecIDs, isSubmitting>>

ShareSettles ==
    /\ ShareEvent
    /\ shareInFlight > 0
    /\ shareInFlight' = shareInFlight - 1
    /\ \E outcome \in ShareOutcomes :
        /\ onSubmitResume(outcome)
        /\ shareResult' = outcome
    /\ lastOp' = "shareSettle"
    /\ UNCHANGED <<photometry, spectra, lastShare, route>>
    /\ UNCHANGED formVars
    /\ UNCHANGED pageVars

\* what the store holds for a source when the form is routed to it: nothing
\* yet, or the list an earlier fetch for that source left there
NotLoaded == [loaded |-> FALSE, rows |-> <<>>]
StoredPhotometry(r) ==
    {NotLoaded} \cup {[loaded |-> TRUE, rows |-> rows] : rows \in PhotometryLists(r)}
StoredSpectra(r) ==
    {NotLoaded} \cup {[loaded |-> TRUE, rows |-> rows] : rows \in SpectraLists(r)}

\* route.id changes while the form stays mounted: the selectors read the
\* new source's lists and the effect fetches them; the useState values and
\* the groups field are kept.
RouteChanged ==
    /\ ShareEvent
    /\ \E r \in Routes \ {route} :
        /\ route' = r
        /\ photometry' \in StoredPhotometry(r)
        /\ spectra' \in StoredSpectra(r)
    /\ lastOp' = "route"
    /\ UNCHANGED <<shareGroups, selectedPhotRows, selectedSpecRows,
                   isSubmitting, shareErrors, shareInFlight, lastShare,
                   nNotifications, shareResult, pickedPhotIDs, pickedSpecIDs>>
    /\ UNCHANGED formVars
    /\ UNCHANGED pageVars

NextShare ==
    \/ RouteChanged
    \/ PhotometryFetched
    \/ SpectraFetched
    \/ SelectPhotRow
    \/ SelectSpecRow
    \/ ChooseShareGroup
    \/ ShareSubmit
    \/ ShareSubmitTwice
    \/ ShareSettles

SpecShare == InitShare /\ [][NextShare]_vars

----------------------------------------------------------------------------
(* The Candidate page (Candidate.jsx) *)

\* the ids a route or a stored candidate can carry, undefined included
CandidateIds == 0..MaxCandidates

\* what the store can hold as state.candidate: the last load's candidate,
\* with or without a loadError
Candidates == [id : CandidateIds, loadError : BOOLEAN]

\* const isCached = route.id === cachedCandidateId
isCached == candRoute = candidate.id

\* the render's return, in the order of its tests
CandidateView_LoadingFirst ==
    IF ~isCached THEN "loading"
    ELSE IF candidate.loadError THEN "error"
    ELSE IF candidate.id = UndefinedId THEN "notFound"
    ELSE "detail"
CandidateView ==
    IF candidate.loadError THEN "error"
    ELSE IF ~isCached THEN "loading"
    ELSE IF candidate.id = UndefinedId THEN "notFound"
    ELSE "detail"

\* the effect's dependencies [dispatch, isCached, route.id]; dispatch is the
\* same function on every render
EffectDeps == <<isCached, candRoute>>

\* the effect runs after the first render, and after a render whose
\* dependencies differ from those of the render before
EffectRuns_EveryRender == TRUE
EffectRuns == view = "none" \/ EffectDeps' # EffectDeps

\* useEffect: if (!isCached) dispatch(fetchCandidate(route.id))
RetrieveCandidate ==
    IF EffectRuns /\ ~isCached'
    THEN fetches' = Append(fetches, candRoute')
    ELSE fetches' = fetches

PageEvent ==
    /\ nOps < MaxPageEvents
    /\ nOps' = nOps + 1

\* the page is mounted: first render, then the effect
CandidateMount ==
    /\ view = "none"
    /\ PageEvent
    /\ UNCHANGED <<candRoute, candidate>>
    /\ view' = CandidateView'
    /\ RetrieveCandidate
    /\ lastOp' = "candMount"
    /\ UNCHANGED <<formVars, shareVars, commentVars, countsVars>>

\* route.id changes: render, then the effect
CandidateRouteChanged ==
    /\ view # "none"
    /\ PageEvent
    /\ candRoute' \in CandidateIds \ {candRoute}
    /\ candidate' = candidate
    /\ view' = CandidateView'
    /\ RetrieveCandidate
    /\ lastOp' = "candRoute"
    /\ UNCHANGED <<formVars, shareVars, commentVars, countsVars>>

\* a load ends and the store's candidate is replaced (a candidate of any id,
\* or a loadError): render, then the effect
CandidateStoreChanged ==
    /\ view # "none"
    /\ PageEvent
    /\ candidate' \in Candidates \ {candidate}
    /\ candRoute' = candRoute
    /\ view' = CandidateView'
    /\ RetrieveCandidate
    /\ lastOp' = "candStore"
    /\ UNCHANGED <<formVars, shareVars, commentVars, countsVars>>

InitCandidate ==
    /\ FormIdle
    /\ ShareIdle
    /\ CommentsIdle
    /\ CountsIdle
    /\ candRoute \in CandidateIds
    /\ candidate \in Candidates
    /\ view = "none"
    /\ fetches = <<>>
    /\ lastOp = "none"
    /\ nOps = 0

NextCandidate ==
    \/ CandidateMount
    \/ CandidateRouteChanged
    \/ CandidateStoreChanged

SpecCandidate == InitCandidate /\ [][NextCandidate]_vars

----------------------------------------------------------------------------
(* The comment list (CommentList.jsx) *)

Users == 1..MaxUsers

\* state.source.comments: up to MaxComments comments, ids 1..n, each with
\* its author's user name
CommentLists ==
    UNION {[1..n -> [id : 1..MaxComments, author : Users]] : n \in 0..MaxComments}

\* state.profile: the user name, and whether roles includes "Super admin"
UserProfiles == [username : Users, superAdmin : BOOLEAN]

\* handleMouseHover(id, userProfile, author)
handleMouseHover_Unchecked(id, profile, author) == hoverID' = id
handleMouseHover(id, profile, author) ==
    IF profile.superAdmin \/ profile.username = author
    THEN hoverID' = id
    ELSE hoverID' = hoverID

\* handleMouseLeave
handleMouseLeave == hoverID' = NoComment

\* onMouseOver / onFocus of a comment's span
MouseHover ==
    /\ PageEvent
    /\ \E i \in 1..Len(comments) :
        handleMouseHover(comments[i].id, userProfile, comments[i].author)
    /\ lastOp' = "hover"
    /\ UNCHANGED <<comments, userProfile>>
    /\ UNCHANGED <<formVars, shareVars, candidateVars, countsVars>>

\* onMouseOut / onBlur of a comment's span
MouseLeave ==
    /\ PageEvent
    /\ Len(comments) > 0
    /\ handleMouseLeave
    /\ lastOp' = "leave"
    /\ UNCHANGED <<comments, userProfile>>
    /\ UNCHANGED <<formVars, shareVars, candidateVars, countsVars>>

\* the delete buttons displayed: hoverID === id
DeleteShown == {i \in 1..Len(comments) : hoverID = comments[i].id}

\* the list is mounted over any comments with distinct ids and any profile
InitComments ==
    /\ FormIdle
    /\ ShareIdle
    /\ CandidateIdle
    /\ CountsIdle
    /\ comments \in CommentLists
    /\ \A i \in 1..Len(comments) : comments[i].id = i
    /\ userProfile \in UserProfiles
    /\ hoverID = NoComment
    /\ lastOp = "none"
    /\ nOps = 0

NextComments ==
    \/ MouseHover
    \/ MouseLeave

SpecComments == InitComments /\ [][NextComments]_vars

----------------------------------------------------------------------------
(* The source-counts widget (SourceCounts.jsx) *)

\* the sinceDaysAgo prop: undefined (defaultProps) or a number of days,
\* written in digits
SinceDaysAgoProps == {"undefined", "7", "30"}

\* defaultPrefs: sinceDaysAgo ? parseInt(sinceDaysAgo, 10) : ""
defaultPrefs ==
    [sinceDaysAgo |-> IF sinceDaysAgo = "undefined" THEN "" ELSE sinceDaysAgo]

\* state.profile.preferences.sourceCounts: blank, or an object
PrefValues == {"", "7", "30"}
StoredPrefs ==
    {[set |-> FALSE, sinceDaysAgo |-> ""]}
        \cup {[set |-> TRUE, sinceDaysAgo |-> v] : v \in PrefValues}

\* useEffect without a dependency list: after every render,
\* if (!userPrefs) dispatch(updateUserPreferences(sourceCountPrefs)).
\* The dispatches of the effect after a render that read prefs from the
\* store, each with a note of whether the preference was blank then.
UpdateBlankPrefs(prefs) ==
    IF ~prefs.set
    THEN <<[prefs |-> defaultPrefs, blank |-> ~prefs.set]>>
    ELSE <<>>

\* the widget renders: on mount, and again when its parent renders or the
\* source counts in the store change
CountsRender ==
    /\ PageEvent
    /\ UNCHANGED <<sinceDaysAgo, userPrefs>>
    /\ prefUpdates' = prefUpdates \o UpdateBlankPrefs(userPrefs)
    /\ prefsInFlight' = prefsInFlight + Len(UpdateBlankPrefs(userPrefs))
    /\ lastOp' = "countsRender"
    /\ UNCHANGED <<formVars, shareVars, candidateVars, commentVars>>

\* an updateUserPreferences request is answered and the stored preference
\* becomes what was sent; the widget renders with it
PrefsStored ==
    /\ PageEvent
    /\ prefsInFlight > 0
    /\ userPrefs' = [set |-> TRUE, sinceDaysAgo |-> defaultPrefs.sinceDaysAgo]
    /\ sinceDaysAgo' = sinceDaysAgo
    /\ prefUpdates' = prefUpdates \o UpdateBlankPrefs(userPrefs')
    /\ prefsInFlight' = prefsInFlight - 1 + Len(UpdateBlankPrefs(userPrefs'))
    /\ lastOp' = "prefsStored"
    /\ UNCHANGED <<formVars, shareVars, candidateVars, commentVars>>

\* an updateUserPreferences request fails: the store keeps the preference
PrefsUpdateFails ==
    /\ PageEvent
    /\ prefsInFlight > 0
    /\ prefsInFlight' = prefsInFlight - 1
    /\ lastOp' = "prefsFailed"
    /\ UNCHANGED <<sinceDaysAgo, userPrefs, prefUpdates>>
    /\ UNCHANGED <<formVars, shareVars, candidateVars, commentVars>>

\* the user saves a preference in the widget's dialog (WidgetPrefsDialog,
\* onSubmit={updateUserPreferences}) and the store takes it; the widget
\* renders with it
PrefsDialogSaved ==
    /\ PageEvent
    /\ \E v \in PrefValues : userPrefs' = [set |-> TRUE, sinceDaysAgo |-> v]
    /\ userPrefs' # userPrefs
    /\ sinceDaysAgo' = sinceDaysAgo
    /\ prefUpdates' = prefUpdates \o UpdateBlankPrefs(userPrefs')
    /\ prefsInFlight' = prefsInFlight + Len(UpdateBlankPrefs(userPrefs'))
    /\ lastOp' = "prefsSaved"
    /\ UNCHANGED <<formVars, shareVars, candidateVars, commentVars>>

InitCounts ==
    /\ FormIdle
    /\ ShareIdle
    /\ CandidateIdle
    /\ CommentsIdle
    /\ sinceDaysAgo \in SinceDaysAgoProps
    /\ userPrefs \in StoredPrefs
    /\ prefUpdates = <<>>
    /\ prefsInFlight = 0
    /\ lastOp = "none"
    /\ nOps = 0

NextCounts ==
    \/ CountsRender
    \/ PrefsStored
    \/ PrefsUpdateFails
    \/ PrefsDialogSaved

SpecCounts == InitCounts /\ [][NextCounts]_vars

\* The option list builder on its own: the store holds any taxonomy list of
\* up to MaxTaxonomies entries, and the component renders once.
InitOptions ==
    /\ taxonomyList \in TaxonomyLists
    /\ FormInit
    /\ ShareIdle
    /\ CandidateIdle
    /\ CommentsIdle
    /\ CountsIdle

NextOptions == Render

SpecOptions == InitOptions /\ [][NextOptions]_vars

----------------------------------------------------------------------------
(* Claims about the filter form *)

\* a user event has just run handleSubmit
SubmitStep == lastOp' = "submit" /\ nOps' = nOps + 1

\* C1: whenever a group list is supplied and the draft groupIds is empty at
\* submit time, submit does not invoke handleFilterSubmit and marks the
\* groupIds field invalid, after any sequence of edits, resets and submits.
C1_EmptyGroupIdsBlocksSubmit ==
    [][(SubmitStep /\ groups.defined /\ values["groupIds"] = <<>>)
        => (/\ nCalls' = nCalls
            /\ lastCall' = lastCall
            /\ "groupIds" \in errors')]_vars

\* a blocked submit that follows a successful submit and a later edit or reset
C1_Witness ==
    /\ phase = "mounted"
    /\ lastOp = "submit"
    /\ values["groupIds"] = <<>>
    /\ errors = {"groupIds"}
    /\ nCalls = 1

\* C2: when no group list is supplied (groups undefined) the form renders
\* without the group selector and its rule, so that submit is possible and
\* never requires groupIds.
C2_NoGroupListFormUsable ==
    (~groups.defined /\ phase # "unmounted")
        => (/\ phase = "mounted"
            /\ "groupIds" \notin DOMAIN values
            /\ errors = {})

\* C3: on a successful submit the mapping passed to handleFilterSubmit holds,
\* for each field, the value of the last edit of that field, or its default
\* if it was not edited since the last reset.
C3_SubmitPassesLastEdits ==
    [][(SubmitStep /\ nCalls' = nCalls + 1) => lastCall' = lastEdit]_vars

\* a successful submit after the group selection and two more edits, with a
\* non-default text value passed on
C3_Witness ==
    /\ lastOp = "submit"
    /\ nCalls = 1
    /\ nOps = 4
    /\ lastCall["sourceID"] = "y"
    /\ lastCall["endDate"] = ""
    /\ lastCall["groupIds"] # <<>>

\* C4: the mirrors equal the current selection of their fields in every
\* reachable state of the rendered form.
C4_MirrorsEqualSelection ==
    phase = "mounted"
        => (/\ selectedClassifications = values["classifications"]
            /\ selectedGroups = values["groupIds"])

\* C5: after reset every field holds its default: text, numeric and date
\* fields the empty string, the two selections the empty list, the two
\* flags false.
C5_ResetRestoresDefaults ==
    lastOp = "reset"
        => (/\ \A f \in TextFields : values[f] = ""
            /\ values["classifications"] = <<>>
            /\ values["groupIds"] = <<>>
            /\ values["hasTNSname"] = FALSE
            /\ values["hasSpectrum"] = FALSE)

\* a reset after both selections were made (the mirrors still show them)
C5_Witness ==
    /\ lastOp = "reset"
    /\ selectedClassifications # <<>>
    /\ selectedGroups # <<>>
    /\ nOps = 4

\* C6: reset never invokes handleFilterSubmit, whatever the draft.
C6_ResetNeverCallsBack ==
    [][(lastOp' = "reset" /\ nOps' = nOps + 1)
        => (nCalls' = nCalls /\ lastCall' = lastCall)]_vars

\* a reset of a draft that had a group selected, hence would have passed
\* validation, and no callback so far
C6_Witness ==
    /\ lastOp = "reset"
    /\ nOps = 2
    /\ selectedGroups # <<>>
    /\ nCalls = 0

\* C7: when validation succeeds (no group selector, or groupIds not empty),
\* submit invokes handleFilterSubmit exactly once, with the value of every
\* field as it is in the form, and changes no field.
C7_ValidSubmitForwardsValues ==
    [][(SubmitStep /\ (~groups.defined \/ values["groupIds"] # <<>>))
        => (/\ nCalls' = nCalls + 1
            /\ lastCall' = values
            /\ values' = values)]_vars

\* a successful submit of a draft with a classification and a flag set
C7_Witness ==
    /\ lastOp = "submit"
    /\ nCalls = 1
    /\ lastCall["classifications"] # <<>>
    /\ lastCall["hasSpectrum"] = TRUE
    /\ lastCall = values

\* C8: a submit is blocked only when the group list supplied is not empty
\* and groupIds is empty; with no list or an empty list nothing is required.
C8_OnlyNonEmptyGroupListBlocks ==
    (lastOp = "submit" /\ errors # {})
        => (/\ groups.defined
            /\ Len(groups.list) > 0
            /\ values["groupIds"] = <<>>)

\* C12 (as claimed): while the form library marks groupIds invalid after a
\* blocked submit, the form shows a validation message for it; a submit that
\* succeeds clears the marking.
C12_BlockedSubmitShowsMessage ==
    /\ "groupIds" \in errors => "groupIds" \in ShownErrors
    /\ (lastOp = "submit" /\ phase = "mounted" /\ values["groupIds"] # <<>>)
            => errors = {}

\* C13: when the callback throws or its promise rejects, the submit handler
\* ends with the same error, the callback is not invoked again, and the
\* field values are as they were.
C13_CallbackFailurePropagates ==
    [][callbackError' # "none"
        => (/\ submitError' = callbackError'
            /\ values' = values
            /\ nCalls' <= nCalls + 1
            /\ (lastOp' = "settle" => nCalls' = nCalls))]_vars

\* the promise of a submit with a text value entered is rejected
C13_Witness ==
    /\ lastOp = "settle"
    /\ callbackError # "none"
    /\ values["sourceID"] = "x"
    /\ nCalls = 1

\* C14: a reset applied to the state a reset produced changes neither the
\* field values nor the mirrors nor the errors.
C14_ResetIdempotent ==
    [][(lastOp = "reset" /\ lastOp' = "reset")
        => (/\ values' = values
            /\ selectedClassifications' = selectedClassifications
            /\ selectedGroups' = selectedGroups
            /\ errors' = errors)]_vars

\* resets after a classification was selected
C14_Witness ==
    /\ lastOp = "reset"
    /\ nOps = 3
    /\ selectedClassifications # <<>>
    /\ values = DefaultValues

\* C15: a submit that fails validation changes no field value and no
\* mirror.
C15_FailedSubmitKeepsDraft ==
    [][(SubmitStep /\ nCalls' = nCalls)
        => (/\ values' = values
            /\ lastEdit' = lastEdit
            /\ selectedClassifications' = selectedClassifications
            /\ selectedGroups' = selectedGroups)]_vars

\* a blocked submit of a draft with a text value and a classification
C15_Witness ==
    /\ lastOp = "submit"
    /\ errors = {"groupIds"}
    /\ values["sourceID"] = "x"
    /\ values["classifications"] # <<>>

\* C16: an edit changes the value of one field only; an edit of
\* classifications also sets selectedClassifications to the new value, an
\* edit of groupIds also sets selectedGroups, and no edit touches another
\* mirror.
C16_EditChangesOneField ==
    [][lastOp' = "edit"
        => LET changed == {g \in DOMAIN values : values'[g] # values[g]}
           IN  /\ DOMAIN values' = DOMAIN values
               /\ Cardinality(changed) <= 1
               /\ IF "classifications" \in changed
                  THEN selectedClassifications' = values'["classifications"]
                  ELSE selectedClassifications' = selectedClassifications
               /\ IF "groupIds" \in changed
                  THEN selectedGroups' = values'["groupIds"]
                  ELSE selectedGroups' = selectedGroups]_vars

\* an edit after a group, a classification and a text value were entered
C16_Witness ==
    /\ lastOp = "edit"
    /\ selectedGroups # <<>>
    /\ selectedClassifications # <<>>
    /\ values["ra"] = "y"

\* C17: while a callback invocation is pending, edits, reset and submit stay
\* enabled, and a submit of a valid draft invokes the callback again, so
\* that one more invocation is in flight.
C17_NoSubmittingGuard ==
    (phase = "mounted" /\ pending >= 1 /\ nOps < MaxOps)
        => (/\ ENABLED EditText
            /\ ENABLED EditCheckbox
            /\ ENABLED Reset
            /\ ENABLED Submit
            /\ values["groupIds"] # <<>>
                => ENABLED (Submit /\ nCalls' = nCalls + 1
                                   /\ pending' = pending + 1))

\* two callback invocations in flight at once
C17_Witness ==
    /\ pending = 2
    /\ nCalls = 2

\* C19: what a submit does is determined by the field values alone: the
\* validation outcome by groupIds, the mapping passed on by the values;
\* states that differ only in the mirrors submit alike.
C19_SubmitIgnoresMirrors ==
    [][SubmitStep
        => IF values["groupIds"] # <<>>
           THEN /\ nCalls' = nCalls + 1
                /\ lastCall' = [f \in DOMAIN values |-> values[f]]
                /\ errors' = {}
           ELSE /\ nCalls' = nCalls
                /\ lastCall' = lastCall
                /\ errors' = {"groupIds"}]_vars

\* a successful submit in a state whose classifications mirror differs from
\* the field
C19_Witness ==
    /\ lastOp = "submit"
    /\ nCalls = 1
    /\ selectedClassifications # values["classifications"]

\* C20: no step of the filter form changes the store or dispatches a
\* request or a notification, and handleFilterSubmit is invoked by submit
\* only.
C20_FormLeavesStoreAlone ==
    [][/\ taxonomyList' = taxonomyList
       /\ groups' = groups
       /\ photometry' = photometry
       /\ spectra' = spectra
       /\ shareInFlight' = shareInFlight
       /\ nNotifications' = nNotifications
       /\ (nCalls' # nCalls => lastOp' = "submit")]_vars

\* a reset after a successful submit
C20_Witness ==
    /\ lastOp = "reset"
    /\ nCalls = 1
    /\ nOps = 4

----------------------------------------------------------------------------
(* Claims about the data-sharing form *)

\* C18: isSubmitting is true exactly while a shareData call is in flight,
\* and the submit button is disabled and the notice shown exactly then.
C18_SubmittingWhileInFlight ==
    /\ isSubmitting <=> shareInFlight > 0
    /\ SubmitShareDisabled <=> isSubmitting
    /\ ProcessingShown <=> isSubmitting

\* C22: at most one shareData request is in flight at any time, and while
\* one is, the submit button is disabled.
C22_AtMostOneShareInFlight ==
    /\ shareInFlight <= 1
    /\ shareInFlight = 1 => SubmitShareDisabled

\* C23: when onSubmit has ended, whatever the outcome of shareData,
\* isSubmitting is false again and the submit button is enabled.
C23_SubmittingEndsWithOnSubmit ==
    lastOp = "shareSettle" => (~isSubmitting /\ ~SubmitShareDisabled)

\* C24: the selected row indexes are indexes into the lists the tables show
\* and denote the records the user selected, and onSubmit sends the ids of
\* those records.
C24_SelectionDenotesPickedRecords ==
    /\ selectedPhotRows \subseteq 1..Len(photometry.rows)
    /\ selectedSpecRows \subseteq 1..Len(spectra.rows)
    /\ SelectedIDs(selectedPhotRows, photometry.rows) = pickedPhotIDs
    /\ SelectedIDs(selectedSpecRows, spectra.rows) = pickedSpecIDs
    /\ (lastOp \in {"share", "shareTwice"} /\ isSubmitting)
        => /\ lastShare.photometryIDs = pickedPhotIDs
           /\ lastShare.spectrumIDs = pickedSpecIDs

\* C25: when shareData ends with status "success" the groups and both row
\* selections are emptied and one notification is dispatched; when it ends
\* otherwise none of them changes and no notification is dispatched.
C25_ClearsExactlyOnSuccess ==
    [][lastOp' = "shareSettle"
        => IF shareResult' = "success"
           THEN /\ shareGroups' = <<>>
                /\ selectedPhotRows' = {}
                /\ selectedSpecRows' = {}
                /\ nNotifications' = nNotifications + 1
           ELSE /\ shareGroups' = shareGroups
                /\ selectedPhotRows' = selectedPhotRows
                /\ selectedSpecRows' = selectedSpecRows
                /\ nNotifications' = nNotifications]_vars

\* a successful share of selected photometry has been cleared
C25_Witness ==
    /\ lastOp = "shareSettle"
    /\ shareResult = "success"
    /\ nNotifications = 1
    /\ lastShare.photometryIDs # {}
    /\ selectedPhotRows = {}

\* C26: shareData is never dispatched with an empty groupIDs list; a submit
\* with no group chosen sets errors.groups and changes neither isSubmitting
\* nor the row selections.
C26_NoShareWithoutGroups ==
    [][/\ shareInFlight' > shareInFlight => lastShare'.groupIDs # <<>>
       /\ (lastOp' \in {"share", "shareTwice"} /\ nOps' = nOps + 1
                /\ shareGroups = <<>>)
            => /\ shareErrors'
               /\ ~isSubmitting'
               /\ shareInFlight' = shareInFlight
               /\ lastShare' = lastShare
               /\ selectedPhotRows' = selectedPhotRows
               /\ selectedSpecRows' = selectedSpecRows]_vars

\* a submit with rows selected and no group chosen was blocked
C26_Witness ==
    /\ lastOp = "share"
    /\ shareErrors
    /\ shareGroups = <<>>
    /\ selectedPhotRows # {}
    /\ shareInFlight = 0

----------------------------------------------------------------------------
(* Claims about the classification option list *)

\* the labels of the latest taxonomies, from the taxonomy list itself
LabelsOfLatest ==
    UNION { { FormatLabel(taxonomyList[i].name, taxonomyList[i].hierarchy[k]) :
                k \in 1..Len(taxonomyList[i].hierarchy) } :
            i \in {j \in 1..Len(taxonomyList) : taxonomyList[j].isLatest} }

\* the labels that only taxonomies not flagged latest produce
LabelsOnlyOfOthers ==
    UNION { { FormatLabel(taxonomyList[i].name, taxonomyList[i].hierarchy[k]) :
                k \in 1..Len(taxonomyList[i].hierarchy) } :
            i \in {j \in 1..Len(taxonomyList) : ~taxonomyList[j].isLatest} }
        \ LabelsOfLatest

\* number of labels the latest taxonomies produce, repeats included
NumLatestClasses(n) ==
    LET idx == {j \in 1..n : taxonomyList[j].isLatest}
        RECURSIVE Sum(_)
        Sum(S) == IF S = {} THEN 0
                  ELSE LET j == CHOOSE x \in S : TRUE
                       IN  Len(taxonomyList[j].hierarchy) + Sum(S \ {j})
    IN  Sum(idx)

\* C9: each label occurs exactly once in the option list, also when latest
\* taxonomies overlap or the extractor returns a class twice.
C9_OptionsDuplicateFree ==
    lastOp = "render"
        => /\ \A i, j \in 1..Len(classifications) :
                i # j => classifications[i] # classifications[j]
           /\ \A l \in LabelsOfLatest :
                Cardinality({i \in 1..Len(classifications) : classifications[i] = l}) = 1

\* a render where two latest taxonomies produce a common label
C9_Witness ==
    /\ lastOp = "render"
    /\ Len(taxonomyList) = 2
    /\ taxonomyList[1].isLatest
    /\ taxonomyList[2].isLatest
    /\ taxonomyList[1].hierarchy # taxonomyList[2].hierarchy
    /\ NumLatestClasses(2) > Len(classifications)
    /\ Len(classifications) > 1

\* C10: the option list holds exactly the labels of the taxonomies flagged
\* latest: every class of a latest taxonomy is offered, and every label
\* offered is the label of a latest taxonomy.
C10_OptionsAreLatestLabels ==
    lastOp = "render"
        => {classifications[i] : i \in 1..Len(classifications)} = LabelsOfLatest

\* a render with a latest taxonomy, and a superseded one whose label is not
\* offered
C10_Witness ==
    /\ lastOp = "render"
    /\ LabelsOfLatest # {}
    /\ LabelsOnlyOfOthers # {}
    /\ LabelsOnlyOfOthers \cap {classifications[i] : i \in 1..Len(classifications)} = {}

\* a before b, comparing code unit by code unit, a proper prefix first
CodeUnitBefore(a, b) ==
    \E k \in 1..(Len(b)) :
        /\ \A i \in 1..(k - 1) : i <= Len(a) /\ a[i] = b[i]
        /\ (k = Len(a) + 1 \/ (k <= Len(a) /\ a[k] < b[k]))

\* the code points a sequence of UTF-16 code units encodes
RECURSIVE CodePoints(_)
CodePoints(s) ==
    IF Len(s) = 0 THEN <<>>
    ELSE IF Len(s) >= 2 /\ s[1] \in 55296..56319 /\ s[2] \in 56320..57343
         THEN <<65536 + (s[1] - 55296) * 1024 + (s[2] - 56320)>>
                \o CodePoints(SubSeq(s, 3, Len(s)))
         ELSE <<s[1]>> \o CodePoints(Tail(s))

Reversed(list) == [i \in 1..Len(list) |-> list[Len(list) + 1 - i]]

\* the taxonomy list in the opposite order, the extractor's classes too
ReversedInput ==
    Reversed([i \in 1..Len(taxonomyList) |->
                [taxonomyList[i] EXCEPT !.hierarchy = Reversed(@)]])

\* C11 (as claimed): the option list is in ascending lexicographic order of
\* the labels' code points.
C11_OptionsInCodePointOrder ==
    lastOp = "render"
        => \A i, j \in 1..Len(classifications) :
                i < j => CodeUnitBefore(CodePoints(classifications[i]),
                                        CodePoints(classifications[j]))

\* C11 (amended): the option list is in ascending lexicographic order of the
\* labels' UTF-16 code units, and is the same for the taxonomy list and the
\* extractor's classes taken in the opposite order.
C11_OptionsInCodeUnitOrder ==
    lastOp = "render"
        => /\ \A i, j \in 1..Len(classifications) :
                i < j => CodeUnitBefore(classifications[i], classifications[j])
           /\ ClassificationOptions(ReversedInput) = classifications

\* a render whose labels arrive out of order, one of them holding a
\* surrogate pair
C11_Witness ==
    /\ lastOp = "render"
    /\ Len(classifications) >= 3
    /\ classifications # Unique(ConcatClasses(LatestTaxonomies(taxonomyList)))
    /\ \E i \in 1..Len(classifications) :
            CodePoints(classifications[i]) # classifications[i]

----------------------------------------------------------------------------
(* Claims about the Candidate page *)

----------------------------------------------------------------------------
(* Claims about the comment list *)

\* the user may delete the comment: Super admin, or its author
MayDelete(c) == userProfile.superAdmin \/ userProfile.username = c.author

\* C29: hoverID is null or the id of a comment the user is Super admin for
\* or the author of; the delete button is displayed for at most one
\* comment, and never for one the user may not delete.
C29_HoverOnlyOwnComments ==
    /\ \/ hoverID = NoComment
       \/ \E i \in 1..Len(comments) :
            comments[i].id = hoverID /\ MayDelete(comments[i])
    /\ Cardinality(DeleteShown) <= 1
    /\ \A i \in DeleteShown : MayDelete(comments[i])

\* a user who is not Super admin has hovered over both comments, one of
\* them another user's, and the button is on the own comment
C29_Witness ==
    /\ lastOp = "hover"
    /\ nOps >= 2
    /\ ~userProfile.superAdmin
    /\ Len(comments) = 2
    /\ \E i \in 1..Len(comments) : ~MayDelete(comments[i])
    /\ Cardinality(DeleteShown) = 1

----------------------------------------------------------------------------
(* Claims about the source-counts widget *)

\* C30: updateUserPreferences is dispatched with the app default and only
\* while the preference is blank, and once it has been dispatched no
\* further update is dispatched.
C30_DefaultDispatchedOnce ==
    /\ \A i \in 1..Len(prefUpdates) :
            prefUpdates[i].blank /\ prefUpdates[i].prefs = defaultPrefs
    /\ Len(prefUpdates) <= 1

====
